---- MODULE Spec2Model ----
(***************************************************************************)
(* A model of vsfmpy (src/vsfmpy.py): the socket command driver of         *)
(* VisualSFM (open_socket, send_vsfm_command_num, send_vsfm_command_tup,   *)
(* wait_until_complete) and the binary '.sift' feature-file codec          *)
(* (write_vsfm_sift, read_vsfm_sift).                                      *)
(*                                                                         *)
(* Time is counted in ticks of 0.05 s, the greatest common unit of the     *)
(* sleeps of wait_until_complete.  Text is a sequence of tokens; string    *)
(* concatenation is concatenation of token sequences and str.find of a     *)
(* completion flag is membership of the flag among the tokens.             *)
(***************************************************************************)
EXTENDS Integers, Sequences, FiniteSets, TLC

VARIABLES
    pc,         \* where the caller is: "idle", "connect" (open_socket's loop), "wait"
    call,       \* the running (or last) call: its name and the arguments still in use
    sock,       \* the socket object: made, connected, blocking
    peer,       \* the tool's end: "open", "fin" (closed gracefully), "rst" (reset)
    attempt,    \* open_socket: iterations of the retry loop done
    sent,       \* lines written to the socket during the running (or last) call
    reads,      \* whether recv was called during the running (or last) call
    timeout,    \* wait_until_complete: <<>> for None, <<t>> for t ticks
    elapsed,    \* wait_until_complete: time.time() - begin as the timeout check
                \* reads it, in ticks
    bytes_rec,  \* wait_until_complete: the chunk most recently received
    recvd,      \* what the last recv of the running (or last) wait did
    marked,     \* whether the last data received in that wait held a complete flag
    log,        \* messages logged at INFO or above during the running (or last) call
    ret,        \* how the last call ended: [how, value]
    unread,     \* whether the tool was sent a command of an earlier call whose
                \* response was not read: it is, or will be, in the socket's buffer
    origin,     \* the command that the data received last in the running (or last)
                \* wait responds to: "this" call's or an "earlier" one's
    long_size,  \* struct.calcsize('L') of the platform: 4 or 8
    keypoints,  \* write_vsfm_sift: the keypoints argument
    descriptors,\* write_vsfm_sift: the descriptors argument, [given, v]
    file,       \* the bytes of the feature file
    wrote,      \* how write_vsfm_sift ended
    decoded,    \* how read_vsfm_sift ended, and what it returned
    matches_list, \* write_feature_matches: the records (i, j, matches)
    match_path, \* write_feature_matches: the match_path argument, <<>> for None
    match_file, \* the match file: [path, text]
    matched     \* how write_feature_matches ended

svars == <<pc, call, sock, peer, attempt, sent, reads, timeout, elapsed,
           bytes_rec, recvd, marked, log, ret, unread, origin>>
mvars == <<matches_list, match_path, match_file, matched>>
cvars == <<long_size, keypoints, descriptors, file, wrote, decoded, mvars>>
vars == <<svars, cvars>>

---------------------------------------------------------------------------
(* Bounds of the model *)

\* the finite timeout a caller passes explicitly, in ticks (2 ticks = 0.1 s)
ShortTimeout == 2
\* the clock of a wait is not counted beyond this many ticks: more than the
\* longest timeout and the longest iteration together
MaxElapsed == 1220

(* Program constants, in ticks of 0.05 s where they are times *)

\* range(10)
Retries == 10
\* time.sleep(0.05) after a chunk was received
SleepData == 1
\* time.sleep(0.2) when recv raised
SleepEmpty == 4
\* time.sleep(0.2) for each flag that is not in the chunk
SleepMiss == 4
\* timeout=60
DefaultTimeout == 1200

---------------------------------------------------------------------------
(* CommandRegistry: the nested dict vsfm_command_dict of vsfm_data.        *)
(* A leaf is an integer code, an inner node a dict of its children.        *)

Leaf(n) == [leaf |-> TRUE, code |-> n]
Dict(kids) == [leaf |-> FALSE, kids |-> kids]

vsfm_command_dict ==
    Dict([file |-> Dict([open_multi_images |-> Leaf(33166),
                         exit_program |-> Leaf(57665)]),
          sfm |-> Dict([pairwise |-> Dict([compute_missing_match |-> Leaf(33033)]),
                        reconstruct_sparse |-> Leaf(33041)])])

RECURSIVE LeavesOf(_)
LeavesOf(node) ==
    IF node.leaf THEN {node.code}
    ELSE UNION {LeavesOf(node.kids[k]) : k \in DOMAIN node.kids}

\* the integer codes of the registry
Codes == LeavesOf(vsfm_command_dict)

\* The descent "last = last[command]" over the segments of the path: the node
\* reached, or the exception that last[command] raises.
RECURSIVE Descend(_, _)
Descend(last, tuple_command) ==
    IF tuple_command = <<>> THEN [ok |-> TRUE, last |-> last, exc |-> ""]
    ELSE IF last.leaf
        THEN [ok |-> FALSE, last |-> last, exc |-> "TypeError"]
    ELSE IF Head(tuple_command) \notin DOMAIN last.kids
        THEN [ok |-> FALSE, last |-> last, exc |-> "KeyError"]
    ELSE Descend(last.kids[Head(tuple_command)], Tail(tuple_command))

\* str(number): the decimal digits of an integer, the repr of a dict
str(number) == IF number.leaf THEN ToString(number.code) ELSE "{...}"

---------------------------------------------------------------------------
(* Inputs the caller draws from *)

Paths == { <<"file", "open_multi_images">>,
           <<"sfm", "pairwise", "compute_missing_match">>,
           <<"sfm", "pairwise">>,
           <<>>,
           <<"nonexistent">>,
           <<"file", "open_multi_image">>,
           <<"file", "exit_program", "now">> }

Numbers == {33166, 57665}
\* the commands the caller waits on with the default timeout, as vsfm_of_img_dir
\* does (without a parameter): by path and by code
DefaultWaitedPaths == { <<"sfm", "pairwise", "compute_missing_match">> }
DefaultWaitedNumbers == {57665}
\* <<>> is param=None
Params == { <<>>, <<"img.jpg">>, <<"img\\udcff.jpg">> }
\* cmd.encode(): a lone surrogate (a file name os.listdir could not decode) is
\* not encodable and raises UnicodeEncodeError, a ValueError
Encodable(cmd) == \A i \in 1..Len(cmd) : cmd[i] # "img\\udcff.jpg"
\* The (wait, timeout) arguments of a command: no wait, a wait with the timeout
\* given, and a wait with the timeout omitted (the default of 60 s).
WaitArgs(defaulted) ==
    {[wait |-> FALSE, timeout |-> DefaultTimeout],
     [wait |-> TRUE, timeout |-> ShortTimeout]}
    \cup (IF defaulted
          THEN {[wait |-> TRUE, timeout |-> DefaultTimeout]} ELSE {})
\* the port argument: the int start_vsfm returns, or a str
Ports == {"int", "str"}

\* chunks recv can return: each a sequence of tokens
Chunks == { <<"*command processed*", "\n">>,
            <<"loading", "\n">>,
            <<"*command pro">>,
            <<"cessed*", "\n">> }

vsfm_complete_flags == <<"*command processed*", "done", "finished">>

\* str(bytes_rec).find(flag) != -1
Found(chunk, flag) == \E i \in 1..Len(chunk) : chunk[i] = flag

NoPath == <<"-">>
NoCall == [name |-> "none", path |-> NoPath, number |-> Leaf(0), param |-> <<>>,
           wait |-> FALSE]
NoRet == [how |-> "none", value |-> ""]
Returned(v) == [how |-> "return", value |-> v]
Raised(e) == [how |-> "raise", value |-> e]

---------------------------------------------------------------------------
NoDecoded == [how |-> "none", value |-> "", kp_list |-> <<>>, descriptions |-> <<>>]
NoFile == [path |-> "", text |-> <<>>]

\* nothing is asked of write_feature_matches
NoMatching ==
    /\ matches_list = <<>>
    /\ match_path = <<>>
    /\ match_file = NoFile
    /\ matched = NoRet

SessionInit ==
    /\ pc = "idle"
    /\ call = NoCall
    /\ sock = [made |-> FALSE, connected |-> FALSE, blocking |-> TRUE]
    /\ peer = "open"
    /\ attempt = 0
    /\ sent = <<>>
    /\ reads = FALSE
    /\ timeout = <<>>
    /\ elapsed = 0
    /\ bytes_rec = <<>>
    /\ recvd = ""
    /\ marked = FALSE
    /\ log = {}
    /\ ret = NoRet
    /\ unread = FALSE
    /\ origin = ""

Init ==
    /\ SessionInit
    /\ long_size = 4
    /\ keypoints = <<>>
    /\ descriptors = [given |-> FALSE, v |-> <<>>]
    /\ file = <<>>
    /\ wrote = NoRet
    /\ decoded = NoDecoded
    /\ NoMatching

---------------------------------------------------------------------------
(* open_socket(port): the socket is created, then connect is tried in a    *)
(* loop of range(10); one action per iteration.                            *)

open_socket_call(port) ==
    /\ pc = "idle"
    /\ ~sock.made
    /\ pc' = "connect"
    /\ call' = [NoCall EXCEPT !.name = "open_socket", !.param = <<port>>]
    /\ sock' = [made |-> TRUE, connected |-> FALSE, blocking |-> TRUE]
    /\ attempt' = 0
    /\ sent' = <<>>
    /\ reads' = FALSE
    /\ log' = {}
    /\ ret' = NoRet
    /\ recvd' = ""
    /\ marked' = FALSE
    /\ unread' = FALSE
    /\ origin' = ""
    /\ UNCHANGED <<peer, timeout, elapsed, bytes_rec, cvars>>

\* sock.connect((host, port)): TypeError for a str port, OSError (EISCONN) on a
\* socket that is connected already, otherwise the listener accepts or refuses.
connect(port, accepted) ==
    IF port = "str" THEN "TypeError"
    ELSE IF sock.connected THEN "OSError"
    ELSE IF accepted /\ peer = "open" THEN "ok"
    ELSE "ConnectionRefusedError"

\* "Socket connected on " + host + " to port " + port: str + int raises
debug_message(port) == IF port = "int" THEN "TypeError" ELSE "ok"

\* The try block of the loop body: "break" is reached when neither connect nor
\* the debug message raised.
breaks(port, accepted) ==
    connect(port, accepted) = "ok" /\ debug_message(port) = "ok"

open_socket_iteration ==
    /\ pc = "connect"
    /\ attempt < Retries
    /\ \E accepted \in BOOLEAN :
        LET port == call.param[1]
            done == breaks(port, accepted) \/ attempt + 1 = Retries
        IN  /\ sock' = [sock EXCEPT !.connected =
                            @ \/ connect(port, accepted) = "ok"]
            /\ attempt' = attempt + 1
            /\ pc' = IF done THEN "idle" ELSE "connect"
            /\ ret' = IF done THEN Returned("sock") ELSE ret
    /\ UNCHANGED <<call, peer, sent, reads, timeout, elapsed, bytes_rec, recvd,
                   marked, log, unread, origin, cvars>>

---------------------------------------------------------------------------
(* The tool's end of the connection closes: gracefully (recv then returns  *)
(* b'') or by a reset (recv then raises ConnectionResetError).             *)

peer_close(how) ==
    /\ sock.connected
    /\ peer = "open"
    /\ peer' = how
    /\ UNCHANGED <<pc, call, sock, attempt, sent, reads, timeout, elapsed,
                   bytes_rec, recvd, marked, log, ret, unread, origin, cvars>>

---------------------------------------------------------------------------
(* send_vsfm_command_num and send_vsfm_command_tup                         *)

\* the parameter is formatted in whether it was given or not
cmd_with_none(number, param) ==
    <<str(number), " ", IF param = <<>> THEN "None" ELSE param[1], "\n">>

\* cmd = str(number) + '\n', or str(number) + " " + param + '\n'
cmd_of(number, param) ==
    IF param = <<>> THEN <<str(number), "\n">>
    ELSE <<str(number), " ", param[1], "\n">>

\* open_socket.sendall(cmd_bytes): the whole line is written, or the call raises
\* and nothing is: on a socket that never connected always, on one whose peer
\* has closed possibly.
sendall_outcomes ==
    IF ~sock.connected THEN {"OSError"}
    ELSE IF peer = "open" THEN {"ok"}
    ELSE {"ok", "OSError"}

\* `except ValueError` of send_vsfm_command_tup: the exceptions it catches
ValueErrors == {"ValueError", "UnicodeEncodeError"}
caught(exc) == exc \in ValueErrors

\* The body of send_vsfm_command_num on `number`, as far as the write and the
\* entry of the wait: the exception it raises ("" when none), the lines written.
num_body(number, param, write) ==
    IF ~Encodable(cmd_of(number, param))
        THEN [exc |-> "UnicodeEncodeError", lines |-> <<>>]
    ELSE IF write # "ok" THEN [exc |-> write, lines |-> <<>>]
    ELSE [exc |-> "", lines |-> <<cmd_of(number, param)>>]

\* The state after the body of send_vsfm_command_num ran inside call c:
\* an exception leaves through `handled` (the except clause of the caller, if
\* any), a write with wait requested enters wait_until_complete(sock, timeout),
\* a write without returns `value`.
after_num(c, number, param, wait, tmo, write, in_try, value) ==
    LET b == num_body(number, param, write)
        entering == b.exc = "" /\ wait
        handled == in_try /\ b.exc # "" /\ caught(b.exc)
    IN  /\ call' = c
        /\ sent' = b.lines
        /\ reads' = FALSE
        /\ attempt' = attempt
        /\ peer' = peer
        /\ pc' = IF entering THEN "wait" ELSE "idle"
        /\ sock' = IF entering THEN [sock EXCEPT !.blocking = FALSE] ELSE sock
        /\ timeout' = IF entering THEN <<tmo>> ELSE <<>>
        /\ elapsed' = 0
        /\ bytes_rec' = <<>>
        /\ recvd' = ""
        /\ marked' = FALSE
        /\ log' = IF handled THEN {"not found"} ELSE {}
        /\ ret' = IF entering THEN NoRet
                  ELSE IF b.exc = "" THEN Returned(value)
                  ELSE IF handled THEN Returned("None")
                  ELSE Raised(b.exc)
        /\ unread' = (unread \/ (b.exc = "" /\ ~wait))
        /\ origin' = ""
        /\ UNCHANGED cvars

send_vsfm_command_num(number, param, wait, tmo) ==
    /\ pc = "idle"
    /\ sock.made
    /\ \E write \in sendall_outcomes :
        after_num([name |-> "send_vsfm_command_num", path |-> NoPath,
                   number |-> Leaf(number), param |-> param, wait |-> wait],
                  Leaf(number), param, wait, tmo, write, FALSE, "True")

send_vsfm_command_tup(tuple_command, param, wait, tmo) ==
    /\ pc = "idle"
    /\ sock.made
    /\ LET d == Descend(vsfm_command_dict, tuple_command)
           c == [name |-> "send_vsfm_command_tup", path |-> tuple_command,
                 number |-> IF d.ok THEN d.last ELSE NoCall.number,
                 param |-> param, wait |-> wait]
       IN  IF d.ok
           THEN \E write \in sendall_outcomes :
                    after_num(c, d.last, param, wait, tmo, write, TRUE, "None")
           ELSE /\ call' = c
                /\ sent' = <<>>
                /\ reads' = FALSE
                /\ log' = IF caught(d.exc) THEN {"not found"} ELSE {}
                /\ ret' = IF caught(d.exc) THEN Returned("None") ELSE Raised(d.exc)
                /\ recvd' = ""
                /\ marked' = FALSE
                /\ origin' = ""
                /\ UNCHANGED <<pc, sock, peer, attempt, timeout, elapsed, bytes_rec,
                               unread, cvars>>

---------------------------------------------------------------------------
(* wait_until_complete: one action per iteration of `while waiting`.       *)

\* The bytes recv returns are the oldest in the socket's buffer: the response
\* to this call's command, or, as long as none of that has been received, what
\* is left of the responses to the commands of earlier calls.
Origins ==
    {"this"} \cup (IF unread /\ origin # "this" THEN {"earlier"} ELSE {})

\* sock.recv(256) on the non-blocking socket: a chunk of data, b'' once the
\* peer has closed gracefully, or an exception (BlockingIOError when nothing
\* has arrived, ConnectionResetError after a reset, OSError on a socket that
\* never connected).
recv_outcomes ==
    IF ~sock.connected THEN {[exc |-> "OSError", data |-> <<>>, of |-> ""]}
    ELSE IF peer = "open"
        THEN {[exc |-> "", data |-> c, of |-> o] : c \in Chunks, o \in Origins}
             \cup {[exc |-> "BlockingIOError", data |-> <<>>, of |-> ""]}
    ELSE IF peer = "fin" THEN {[exc |-> "", data |-> <<>>, of |-> ""]}
    ELSE {[exc |-> "ConnectionResetError", data |-> <<>>, of |-> ""]}

\* the flags of vsfm_complete_flags that are in the chunk
flags_in(chunk) ==
    {i \in 1..Len(vsfm_complete_flags) : Found(chunk, vsfm_complete_flags[i])}

\* The `except:` branch: whether a flag was found in bytes_rec, and the time
\* slept (0.2 s, and 0.2 s more for each flag that is not in it).
check_flags(chunk) ==
    [found |-> flags_in(chunk) # {},
     slept |-> SleepEmpty
               + SleepMiss * (Len(vsfm_complete_flags) - Cardinality(flags_in(chunk)))]

\* `if timeout is not None: if time.time() - begin > timeout`
timeout_exceeded(tmo, now) == tmo # <<>> /\ now > tmo[1]

\* What the call that waited returns: send_vsfm_command_num returns True after
\* wait_until_complete returned (None, whatever happened), and
\* send_vsfm_command_tup, which has no return statement, None.
return_false_on_timeout(name, late) ==
    IF name = "send_vsfm_command_num"
    THEN Returned(IF late THEN "False" ELSE "True")
    ELSE Returned("None")

return_after_wait(name, late) ==
    IF name = "send_vsfm_command_num" THEN Returned("True") ELSE Returned("None")

\* a slip of indentation: the timeout is checked in the except branch only
iteration_checks_when_empty(r) ==
    LET got == r.exc = ""
        chk == check_flags(bytes_rec)
        found == ~got /\ chk.found
        later == IF timeout = <<>> THEN elapsed
                 ELSE elapsed + (IF got THEN SleepData ELSE chk.slept)
        now == IF later < MaxElapsed THEN later ELSE MaxElapsed
        late == ~got /\ timeout_exceeded(timeout, now)
        waiting == ~found /\ ~late
    IN  /\ bytes_rec' = IF ~waiting THEN <<>> ELSE IF got THEN r.data ELSE bytes_rec
        /\ elapsed' = IF waiting THEN now ELSE 0
        /\ timeout' = IF waiting THEN timeout ELSE <<>>
        /\ reads' = TRUE
        /\ recvd' = IF ~got THEN r.exc ELSE IF r.data = <<>> THEN "eof" ELSE "data"
        /\ marked' = IF got /\ r.data # <<>> THEN flags_in(r.data) # {} ELSE marked
        /\ origin' = IF got /\ r.data # <<>> THEN r.of ELSE origin
        /\ unread' = IF waiting THEN unread ELSE ~(found /\ origin = "this")
        /\ log' = log \cup (IF found THEN {"flag found"} ELSE {})
                      \cup (IF late THEN {"timeout exceeded"} ELSE {})
        /\ pc' = IF waiting THEN "wait" ELSE "idle"
        /\ ret' = IF waiting THEN ret ELSE return_after_wait(call.name, late)

\* the flags are looked for in every iteration, in the chunk just received too
iteration_checks_on_data(r) ==
    LET got == r.exc = ""
        chk == check_flags(IF got THEN r.data ELSE bytes_rec)
        found == chk.found
        later == IF timeout = <<>> THEN elapsed
                 ELSE elapsed + (IF got THEN SleepData ELSE chk.slept)
        now == IF later < MaxElapsed THEN later ELSE MaxElapsed
        late == timeout_exceeded(timeout, now)
        waiting == ~found /\ ~late
    IN  /\ bytes_rec' = IF ~waiting THEN <<>> ELSE IF got THEN r.data ELSE bytes_rec
        /\ elapsed' = IF waiting THEN now ELSE 0
        /\ timeout' = IF waiting THEN timeout ELSE <<>>
        /\ reads' = TRUE
        /\ recvd' = IF ~got THEN r.exc ELSE IF r.data = <<>> THEN "eof" ELSE "data"
        /\ marked' = IF got /\ r.data # <<>> THEN flags_in(r.data) # {} ELSE marked
        /\ origin' = IF got /\ r.data # <<>> THEN r.of ELSE origin
        /\ unread' = IF waiting THEN unread ELSE ~(found /\ origin = "this")
        /\ log' = log \cup (IF found THEN {"flag found"} ELSE {})
                      \cup (IF late THEN {"timeout exceeded"} ELSE {})
        /\ pc' = IF waiting THEN "wait" ELSE "idle"
        /\ ret' = IF waiting THEN ret ELSE return_after_wait(call.name, late)

\* One iteration: r is what recv did.  The clock is read by the timeout check,
\* which a wait without a timeout does not make.
iteration(r) ==
    LET got == r.exc = ""
        chk == check_flags(bytes_rec)
        found == ~got /\ chk.found
        later == IF timeout = <<>> THEN elapsed
                 ELSE elapsed + (IF got THEN SleepData ELSE chk.slept)
        now == IF later < MaxElapsed THEN later ELSE MaxElapsed
        late == timeout_exceeded(timeout, now)
        waiting == ~found /\ ~late
    IN  /\ bytes_rec' = IF ~waiting THEN <<>> ELSE IF got THEN r.data ELSE bytes_rec
        /\ elapsed' = IF waiting THEN now ELSE 0
        /\ timeout' = IF waiting THEN timeout ELSE <<>>
        /\ reads' = TRUE
        /\ recvd' = IF ~got THEN r.exc ELSE IF r.data = <<>> THEN "eof" ELSE "data"
        /\ marked' = IF got /\ r.data # <<>> THEN flags_in(r.data) # {} ELSE marked
        /\ origin' = IF got /\ r.data # <<>> THEN r.of ELSE origin
        /\ unread' = IF waiting THEN unread ELSE ~(found /\ origin = "this")
        /\ log' = log \cup (IF found THEN {"flag found"} ELSE {})
                      \cup (IF late THEN {"timeout exceeded"} ELSE {})
        /\ pc' = IF waiting THEN "wait" ELSE "idle"
        /\ ret' = IF waiting THEN ret ELSE return_after_wait(call.name, late)

\* wait_until_complete(sock, timeout) called by the user of the module, the
\* timeout given or left to its default, None: the lines before the loop.
wait_until_complete_call(tmo) ==
    /\ pc = "idle"
    /\ sock.made
    /\ pc' = "wait"
    /\ call' = [NoCall EXCEPT !.name = "wait_until_complete", !.wait = TRUE]
    /\ sock' = [sock EXCEPT !.blocking = FALSE]
    /\ timeout' = tmo
    /\ elapsed' = 0
    /\ bytes_rec' = <<>>
    /\ sent' = <<>>
    /\ reads' = FALSE
    /\ recvd' = ""
    /\ marked' = FALSE
    /\ log' = {}
    /\ ret' = NoRet
    /\ origin' = ""
    /\ UNCHANGED <<peer, attempt, unread, cvars>>

\* the socket is set blocking again when the wait returns
wait_until_complete_restores ==
    /\ pc = "wait"
    /\ \E r \in recv_outcomes : iteration(r)
    /\ sock' = [sock EXCEPT !.blocking = (pc' = "idle")]
    /\ UNCHANGED <<call, peer, attempt, sent, cvars>>

wait_until_complete ==
    /\ pc = "wait"
    /\ \E r \in recv_outcomes : iteration(r)
    /\ UNCHANGED <<call, sock, peer, attempt, sent, cvars>>

---------------------------------------------------------------------------
(* The '.sift' codec.  A file is a sequence of byte cells <<type, value, i>>: *)
(* a single byte is <<"B", v, 1>>; the i-th byte of a packed float or long   *)
(* of value v is <<"f", v, i>> or <<"L", v, i>>.  Floats are integers (x, y, *)
(* size: values a float32 holds exactly; radians: thousandths).              *)

\* 'B'*128
DescLen == 128
\* tau = 2 * pi, in thousandths of a radian
TauMilli == 6283
\* the 5 of the header
HeaderFive == 5
\* 4*5, the bytes read for one location record
LocSize == 20
\* the length of a short descriptor given to write_vsfm_sift
ShortLen == 2
\* features in one file
MaxFeatures == 2

pack_B(v) == << <<"B", v, 1>> >>
pack_f(v) == [i \in 1..4 |-> <<"f", v, i>>]
pack_L(v) == [i \in 1..long_size |-> <<"L", v, i>>]

\* the value of the field that starts at cell i
field(bin, i) == bin[i][2]

\* 'SIFTV4.0', one byte per character
sift_tag == <<83, 73, 70, 84, 86, 52, 46, 48>>

\* one cell for each byte of vals
pack_bytes(vals) == [i \in 1..Len(vals) |-> pack_B(vals[i])[1]]

\* struct.pack('c'*8 + 'L'*3, *tag, n, 5, 128)
pack_header(n) ==
    pack_bytes(sift_tag) \o pack_L(n) \o pack_L(HeaderFive) \o pack_L(DescLen)

\* struct.calcsize('s'*8 + 'L'*3)
header_size == 8 + 3 * long_size

\* kp.angle*tau/360 and kp[6]*360/tau
to_radians(angle) == (angle * TauMilli) \div 360
to_degrees(rad) == (rad * 360) \div TauMilli

\* struct.pack('ffBBBff', x, y, 0, 0, 0, size, radians): the three colour
\* bytes are followed by one pad byte that aligns the next float
pack_loc(kp) ==
    pack_f(kp.pt[1]) \o pack_f(kp.pt[2]) \o pack_bytes(<<0, 0, 0>>) \o pack_B(0)
    \o pack_f(kp.size) \o pack_f(to_radians(kp.angle))

RECURSIVE pack_locs(_)
pack_locs(kps) ==
    IF kps = <<>> THEN <<>> ELSE pack_loc(Head(kps)) \o pack_locs(Tail(kps))

\* The body of `for desc in descriptors` for one descriptor: a list is copied
\* (int(val) of each value), a tuple is not; `desc += [0]*(128-len(desc))`
\* raises TypeError on a tuple; a longer one is sliced.
normalize(desc) ==
    LET n == Len(desc.vals)
    IN  IF n < DescLen
        THEN IF desc.kind = "list"
             THEN [exc |-> "",
                   vals |-> desc.vals \o [i \in 1..(DescLen - n) |-> 0]]
             ELSE [exc |-> "TypeError", vals |-> desc.vals]
        ELSE IF n > DescLen
        THEN [exc |-> "", vals |-> SubSeq(desc.vals, 1, DescLen)]
        ELSE [exc |-> "", vals |-> desc.vals]

\* The loop over the descriptors: the bytes written until one raises.
RECURSIVE pack_descs(_)
pack_descs(descs) ==
    IF descs = <<>> THEN [exc |-> "", bin |-> <<>>]
    ELSE LET d == normalize(Head(descs))
             rest == pack_descs(Tail(descs))
         IN  IF d.exc # "" THEN [exc |-> d.exc, bin |-> <<>>]
             ELSE [exc |-> rest.exc, bin |-> pack_bytes(d.vals) \o rest.bin]

\* b'\xFFEOF'
trailer == pack_bytes(<<255, 69, 79, 70>>)

\* write_vsfm_sift(keypoints, descriptors): the bytes in the file when the
\* `with` block is left, and how the call ended.  `for desc in None` raises
\* TypeError after the header and the locations were written.
encode(kps, descs) ==
    LET head == pack_header(Len(kps)) \o pack_locs(kps)
        d == pack_descs(descs.v)
    IN  IF ~descs.given THEN [bin |-> head, ret |-> Raised("TypeError")]
        ELSE IF d.exc # "" THEN [bin |-> head \o d.bin, ret |-> Raised(d.exc)]
        ELSE [bin |-> head \o d.bin \o trailer, ret |-> Returned("True")]

write_vsfm_sift ==
    /\ wrote.how = "none"
    /\ LET e == encode(keypoints, descriptors)
       IN  /\ file' = e.bin
           /\ wrote' = e.ret
    /\ UNCHANGED <<svars, long_size, keypoints, descriptors, decoded, mvars>>

\* struct.unpack_from('ffBBBff', loc_bin) and KeyPoint(kp[0], kp[1], kp[5],
\* kp[6]*360/tau): the fields start at bytes 0, 4, 12 and 16 of the record
unpack_loc(bin) ==
    [pt |-> <<field(bin, 1), field(bin, 5)>>,
     size |-> field(bin, 13),
     angle |-> to_degrees(field(bin, 17))]

\* struct.unpack_from('B'*128, desc_bin)
unpack_desc(bin) == [i \in 1..DescLen |-> field(bin, i)]

\* fileobj.read(n) at offset pos
read(bin, pos, n) ==
    SubSeq(bin, pos + 1, IF pos + n <= Len(bin) THEN pos + n ELSE Len(bin))

\* read_vsfm_sift returns the records that are whole when one is short
decode_what_is_there(bin) ==
    LET declared == field(bin, 9)
        locs == (Len(bin) - header_size) \div LocSize
        nlocs == IF locs < declared THEN locs ELSE declared
        descs_from == header_size + LocSize * nlocs
        descs == (Len(bin) - descs_from) \div DescLen
        ndescs == IF descs < declared THEN descs ELSE declared
    IN  IF Len(bin) < header_size
            THEN [NoDecoded EXCEPT !.how = "raise", !.value = "struct.error"]
        ELSE [how |-> "return", value |-> "",
              kp_list |-> [i \in 1..nlocs |->
                  unpack_loc(read(bin, header_size + LocSize * (i - 1), LocSize))],
              descriptions |-> [i \in 1..ndescs |->
                  unpack_desc(read(bin, descs_from + DescLen * (i - 1), DescLen))]]

\* read_vsfm_sift: struct.unpack_from raises struct.error on a buffer shorter
\* than its format.
decode(bin) ==
    LET header_bin == read(bin, 0, header_size)
        nfeatures == field(header_bin, 9)
        loc_at(i) == read(bin, header_size + LocSize * (i - 1), LocSize)
        descs_from == header_size + LocSize * nfeatures
        desc_at(i) == read(bin, descs_from + DescLen * (i - 1), DescLen)
    IN  IF Len(header_bin) < header_size
            THEN [NoDecoded EXCEPT !.how = "raise", !.value = "struct.error"]
        ELSE IF \E i \in 1..nfeatures : Len(loc_at(i)) < LocSize
            THEN [NoDecoded EXCEPT !.how = "raise", !.value = "struct.error"]
        ELSE IF \E i \in 1..nfeatures : Len(desc_at(i)) < DescLen
            THEN [NoDecoded EXCEPT !.how = "raise", !.value = "struct.error"]
        ELSE [how |-> "return", value |-> "",
              kp_list |-> [i \in 1..nfeatures |-> unpack_loc(loc_at(i))],
              descriptions |-> [i \in 1..nfeatures |-> unpack_desc(desc_at(i))]]

read_vsfm_sift ==
    /\ wrote.how # "none"
    /\ decoded.how = "none"
    /\ decoded' = decode(file)
    /\ UNCHANGED <<svars, long_size, keypoints, descriptors, file, wrote, mvars>>

\* Inputs of the codec
KeyPoints == { [pt |-> <<10, 20>>, size |-> 3, angle |-> 90],
               [pt |-> <<0, 7>>, size |-> 1, angle |-> -1] }

\* a descriptor of n values that start at `first`
Desc(kind, n, first) == [kind |-> kind, vals |-> [i \in 1..n |-> (first + i) % 256]]

Descs == { Desc(kind, n, 200) : kind \in {"list", "tuple"},
                                n \in {ShortLen, DescLen, DescLen + 1} }

SeqsUpTo(S, n) == UNION { [1..k -> S] : k \in 0..n }

CodecInit ==
    /\ SessionInit
    /\ long_size \in {4, 8}
    /\ keypoints \in SeqsUpTo(KeyPoints, MaxFeatures)
    /\ descriptors \in {[given |-> FALSE, v |-> <<>>]}
                       \cup {[given |-> TRUE, v |-> v] : v \in SeqsUpTo(Descs, MaxFeatures)}
    /\ file = <<>>
    /\ wrote = NoRet
    /\ decoded = NoDecoded
    /\ NoMatching

CodecNext == write_vsfm_sift \/ read_vsfm_sift

\* The lengths a file of `bin` is cut to before it is read: in and at the end
\* of the header, of each location record and of each descriptor record that
\* the header declares.
Cuts(bin) ==
    LET n == IF Len(bin) < header_size THEN 0 ELSE field(bin, 9)
        locs_end == header_size + LocSize * n
    IN  ({0, 8, header_size - 1, header_size}
         \cup UNION {{header_size + LocSize * i - 3, header_size + LocSize * i} : i \in 1..n}
         \cup UNION {{locs_end + DescLen * i - 1, locs_end + DescLen * i} : i \in 1..n})
        \cap 0..(Len(bin) - 1)

\* The file that open(filename, 'rb') finds is shorter than the one written.
truncate ==
    /\ wrote.how # "none"
    /\ decoded.how = "none"
    /\ \E n \in Cuts(file) : file' = SubSeq(file, 1, n)
    /\ UNCHANGED <<svars, long_size, keypoints, descriptors, wrote, decoded, mvars>>

DecodeNext == write_vsfm_sift \/ truncate \/ read_vsfm_sift

DecodeSpec == CodecInit /\ [][DecodeNext]_vars

CodecSpec == CodecInit /\ [][CodecNext]_vars

---------------------------------------------------------------------------
(* write_feature_matches(matches_list, filenames, match_path): the text of  *)
(* the match file is a sequence of tokens.                                  *)

\* records in one matches_list
MaxRecords == 2
\* matches in one record
MaxMatches == 2

\* the filenames argument: a list, indexed from 0
filenames == <<"a.sift", "b.sift", "c.sift">>

\* filenames[i]
filename(i) ==
    IF i \in 0..(Len(filenames) - 1)
    THEN [exc |-> "", name |-> filenames[i + 1]]
    ELSE [exc |-> "IndexError", name |-> ""]

\* every string is followed by a space
join_each(strs) ==
    [p \in 1..(2 * Len(strs)) |-> IF p % 2 = 1 THEN strs[(p + 1) \div 2] ELSE " "]

\* " ".join(strs)
RECURSIVE join(_)
join(strs) ==
    IF strs = <<>> THEN <<>>
    ELSE IF Len(strs) = 1 THEN <<strs[1]>>
    ELSE <<Head(strs), " ">> \o join(Tail(strs))

\* The body of the loop for one record: the three writes, or the exception
\* that filenames[i] raises before the first of them.
write_record(rec) ==
    LET a == filename(rec.i)
        b == filename(rec.j)
        query == [k \in 1..Len(rec.matches) |-> ToString(rec.matches[k].queryIdx)]
        train == [k \in 1..Len(rec.matches) |-> ToString(rec.matches[k].trainIdx)]
    IN  IF a.exc # "" THEN [exc |-> a.exc, text |-> <<>>]
        ELSE IF b.exc # "" THEN [exc |-> b.exc, text |-> <<>>]
        ELSE [exc |-> "",
              text |-> <<a.name, " ", b.name, " ", ToString(Len(rec.matches)), "\n">>
                       \o join(query) \o <<"\n">>
                       \o join(train) \o <<"\n">>]

\* `for i, j, matches in matches_list`: the text written until a record raises
RECURSIVE write_records(_)
write_records(recs) ==
    IF recs = <<>> THEN [exc |-> "", text |-> <<>>]
    ELSE LET r == write_record(Head(recs))
             rest == write_records(Tail(recs))
         IN  IF r.exc # "" THEN r
             ELSE [exc |-> rest.exc, text |-> r.text \o rest.text]

write_feature_matches ==
    /\ matched.how = "none"
    /\ LET w == write_records(matches_list)
       IN  /\ match_file' = [path |-> IF match_path = <<>> THEN "kp_matches.txt"
                                      ELSE match_path[1],
                             text |-> w.text]
           /\ matched' = IF w.exc = "" THEN Returned("None") ELSE Raised(w.exc)
    /\ UNCHANGED <<svars, long_size, keypoints, descriptors, file, wrote, decoded,
                   matches_list, match_path>>

\* Inputs of the writer
Matches == { [queryIdx |-> 3, trainIdx |-> 7], [queryIdx |-> 14, trainIdx |-> 0] }
Records == { [i |-> ij[1], j |-> ij[2], matches |-> m] :
                ij \in { <<0, 1>>, <<2, 0>>, <<1, 3>> },
                m \in SeqsUpTo(Matches, MaxMatches) }

MatchInit ==
    /\ SessionInit
    /\ long_size = 4
    /\ keypoints = <<>>
    /\ descriptors = [given |-> FALSE, v |-> <<>>]
    /\ file = <<>>
    /\ wrote = NoRet
    /\ decoded = NoDecoded
    /\ matches_list \in SeqsUpTo(Records, MaxRecords)
    /\ match_path \in { <<>>, <<"matches.txt">> }
    /\ match_file = NoFile
    /\ matched = NoRet

MatchNext == write_feature_matches

MatchSpec == MatchInit /\ [][MatchNext]_vars

---------------------------------------------------------------------------
Next ==
    \/ \E port \in Ports : open_socket_call(port)
    \/ open_socket_iteration
    \/ \E how \in {"fin", "rst"} : peer_close(how)
    \/ \E number \in Numbers, param \in Params :
        \E w \in WaitArgs(number \in DefaultWaitedNumbers /\ param = <<>>) :
            send_vsfm_command_num(number, param, w.wait, w.timeout)
    \/ \E tuple_command \in Paths, param \in Params :
        \E w \in WaitArgs(tuple_command \in DefaultWaitedPaths /\ param = <<>>) :
            send_vsfm_command_tup(tuple_command, param, w.wait, w.timeout)
    \/ \E tmo \in {<<>>, <<ShortTimeout>>} : wait_until_complete_call(tmo)
    \/ wait_until_complete

Spec == Init /\ [][Next]_vars

\* The caller's thread runs on: a loop that can take its next iteration does.
FairSpec == Spec /\ WF_vars(wait_until_complete) /\ WF_vars(open_socket_iteration)

---------------------------------------------------------------------------
(* Properties *)

by_path == call.name = "send_vsfm_command_tup"
by_code == call.name = "send_vsfm_command_num"
\* the last call has ended, by a return or by an exception
ended == pc = "idle" /\ ret.how # "none"

\* C1: a call of send_vsfm_command_tup whose path has a segment that is absent
\* from the registry at that depth logs the command as failed, writes nothing,
\* enters no wait and returns to the caller.
C1_UnknownPathIsHandled ==
    (by_path /\ ended /\ ~Descend(vsfm_command_dict, call.path).ok)
        => /\ ret = Returned("None")
           /\ "not found" \in log
           /\ sent = <<>>
           /\ ~reads

\* C2: a line written by send_vsfm_command_tup starts with an integer code of
\* the registry; a path that ends at an inner node (the empty path too) sends
\* no line.
C2_LineStartsWithCode ==
    (by_path /\ sent # <<>>)
        => /\ Head(sent[1]) \in {ToString(c) : c \in Codes}
           /\ Descend(vsfm_command_dict, call.path).last.leaf

\* C3: a completion wait entered with a finite timeout ends, whatever recv
\* does: the elapsed time is checked in every iteration, so no iteration starts
\* with the timeout exceeded, and the wait that exceeded it has logged the
\* timeout and returned without raising.
C3_WaitTerminates ==
    /\ [](pc = "wait" /\ timeout # <<>> => elapsed <= timeout[1])
    /\ []("timeout exceeded" \in log => ended /\ ret.how = "return")
    /\ (pc = "wait" /\ timeout # <<>>) ~> (pc = "idle")

\* a wait that received data in every iteration, the last one too, timed out
C3_witness ==
    /\ ended
    /\ "timeout exceeded" \in log
    /\ recvd = "data"
    /\ ~marked

waited == ended /\ reads
timed_out == waited /\ "timeout exceeded" \in log /\ "flag found" \notin log
completed == waited /\ "flag found" \in log /\ "timeout exceeded" \notin log

C5_FlagThenSilenceCompletes ==
    (waited /\ marked /\ recvd # "data") => "flag found" \in log

\* C6: open_socket returns a socket only when a connect attempt succeeded.
C6_ReturnsConnectedSocket ==
    (call.name = "open_socket" /\ ended /\ ret.how = "return") => sock.connected

\* C7: a call of send_vsfm_command_num that returns has written exactly one
\* line, '<code>\n' without a parameter and '<code> <parameter>\n' with one;
\* the wait is entered after the write, if and only if wait was requested, and
\* a call without wait has not read from the socket.  A call that raised has
\* written nothing and has not read.
C7_OneLinePerCall ==
    LET code == ToString(call.number.code)
        line == IF call.param = <<>> THEN <<code, "\n">>
                ELSE <<code, " ", call.param[1], "\n">>
    IN  by_code =>
            /\ pc = "wait" => call.wait /\ sent = <<line>>
            /\ ended /\ ret.how = "return" => sent = <<line>> /\ (reads <=> call.wait)
            /\ ended /\ ret.how = "raise" => sent = <<>> /\ ~reads

\* a call by code with a parameter and wait requested has returned
C7_witness ==
    /\ by_code /\ ended /\ ret.how = "return" /\ reads
    /\ sent = << <<"33166", " ", "img.jpg", "\n">> >>

---------------------------------------------------------------------------
(* Properties of the codec, checked under CodecSpec *)

\* the records of a written file, by its layout: the count of the header, the
\* location records (each starts a float x), the 128-byte records after them
header_count == field(file, 9)
loc_records == Cardinality({i \in 1..Len(file) : file[i][1] = "f" /\ file[i][3] = 1}) \div 4
desc_records == (Len(file) - header_size - LocSize * loc_records) \div DescLen

\* the descriptor of DescLen values that vals is normalized to
padded(vals) == [j \in 1..DescLen |-> IF j <= Len(vals) THEN vals[j] ELSE 0]

\* the values of the i-th descriptor record of the file
desc_record(i) ==
    LET from == header_size + LocSize * loc_records + DescLen * (i - 1)
    IN  [j \in 1..DescLen |-> field(file, from + j)]

\* C8: the feature count in the header of every file written equals the
\* number of location records and the number of descriptor records in it.
C8_CountsAgree ==
    wrote.how # "none" =>
        header_count = loc_records /\ header_count = desc_records

\* C9: every descriptor, a list or a tuple of any length, is written as
\* exactly 128 bytes, padded with zeros or cut to its first 128 values, and
\* the call does not raise.
C9_NormalizationIsTotal ==
    (wrote.how # "none" /\ descriptors.given) =>
        /\ wrote = Returned("True")
        /\ desc_records = Len(descriptors.v)
        /\ \A i \in 1..Len(descriptors.v) :
              desc_record(i) = padded(descriptors.v[i].vals)

\* C10: for keypoints and descriptors of equal number, reading the file
\* written returns as many keypoints and descriptors in the same order, each
\* keypoint with its x, y and size and its angle up to the conversion, each
\* descriptor normalized to 128 values, and nothing of the trailer.
C10_RoundTrip ==
    (decoded.how # "none" /\ descriptors.given
        /\ Len(keypoints) = Len(descriptors.v)) =>
        /\ decoded.how = "return"
        /\ Len(decoded.kp_list) = Len(keypoints)
        /\ Len(decoded.descriptions) = Len(keypoints)
        /\ \A i \in 1..Len(keypoints) :
              /\ decoded.kp_list[i].pt = keypoints[i].pt
              /\ decoded.kp_list[i].size = keypoints[i].size
              /\ decoded.kp_list[i].angle - keypoints[i].angle \in {-1, 0, 1}
              /\ decoded.descriptions[i] = padded(descriptors.v[i].vals)

\* the length that the header of the file requires of it
required ==
    IF Len(file) < header_size THEN header_size
    ELSE header_size + (LocSize + DescLen) * field(file, 9)

\* C11: read_vsfm_sift of a file that is shorter than its header, or than the
\* location and descriptor records its header declares, raises (struct.error)
\* and returns nothing: no keypoint and no descriptor.
C11_ShortFileRaises ==
    (decoded.how # "none" /\ Len(file) < required) =>
        /\ decoded.how = "raise"
        /\ decoded.value = "struct.error"
        /\ decoded.kp_list = <<>>
        /\ decoded.descriptions = <<>>

\* a file written whole and cut inside its descriptor block was read
C11_witness ==
    /\ wrote = Returned("True")
    /\ Len(keypoints) = Len(descriptors.v)
    /\ decoded.how = "raise"
    /\ Len(file) >= header_size
    /\ field(file, 9) > 0
    /\ Len(file) > header_size + LocSize * field(file, 9)
    /\ Len(file) < required

---------------------------------------------------------------------------
(* Properties of the match file, checked under MatchSpec *)

\* the lines of a text: the tokens before each newline
RECURSIVE lines_from(_, _)
lines_from(text, line) ==
    IF text = <<>> THEN (IF line = <<>> THEN <<>> ELSE <<line>>)
    ELSE IF Head(text) = "\n" THEN <<line>> \o lines_from(Tail(text), <<>>)
    ELSE lines_from(Tail(text), Append(line, Head(text)))

\* n numbers, a single space between two of them
spaced(n, number(_)) ==
    [p \in 1..(IF n = 0 THEN 0 ELSE 2 * n - 1) |->
        IF p % 2 = 1 THEN ToString(number((p + 1) \div 2)) ELSE " "]

in_bounds(rec) == rec.i \in 0..(Len(filenames) - 1) /\ rec.j \in 0..(Len(filenames) - 1)

\* C12: for records whose indices are within filenames, the file written
\* holds three lines for each record, in the order of the records: the two
\* file names and the number of matches, the query indices, the train
\* indices; every line ends with a newline and there is nothing else.
C12_ThreeLinesPerRecord ==
    LET lines == lines_from(match_file.text, <<>>)
        n == Len(matches_list)
    IN  (matched.how # "none" /\ \A k \in 1..n : in_bounds(matches_list[k])) =>
            /\ matched = Returned("None")
            /\ Len(lines) = 3 * n
            /\ n > 0 => match_file.text[Len(match_file.text)] = "\n"
            /\ \A k \in 1..n :
                LET rec == matches_list[k]
                    query(m) == rec.matches[m].queryIdx
                    train(m) == rec.matches[m].trainIdx
                IN  /\ lines[3 * k - 2] = <<filenames[rec.i + 1], " ", filenames[rec.j + 1],
                                            " ", ToString(Len(rec.matches))>>
                    /\ lines[3 * k - 1] = spaced(Len(rec.matches), query)
                    /\ lines[3 * k] = spaced(Len(rec.matches), train)

\* two records were written, one of two matches and one of none
C12_witness ==
    /\ matched = Returned("None")
    /\ Len(matches_list) = 2
    /\ Len(matches_list[1].matches) = 2
    /\ Len(matches_list[2].matches) = 0
    /\ Len(match_file.text) = 6 + 3 + 1 + 3 + 1 + 6 + 1 + 1

---------------------------------------------------------------------------
\* C13: every completion wait, entered through send_vsfm_command_num or
\* send_vsfm_command_tup or by a call of wait_until_complete with its own
\* default timeout, has a deadline and so ends, even when no flag arrives.
C13_EveryWaitEnds ==
    /\ [](pc = "wait" => timeout # <<>>)
    /\ (pc = "wait") ~> (pc = "idle")

\* C14: open_socket calls connect at most 10 times, and never again on a
\* socket on which a connect has succeeded: every iteration of the retry loop
\* starts with fewer than 10 attempts made and the socket not yet connected.
C14_NoConnectAfterSuccess ==
    [][attempt' = attempt + 1 => (attempt < Retries /\ ~sock.connected)]_vars

\* C15: a wait of send_vsfm_command_num or send_vsfm_command_tup that ended
\* as Completed found the flag in data that the tool sent in response to the
\* command of that call, never in what was left unread of the responses to
\* commands sent before it without wait.
C15_FlagOfThisCommand ==
    ((by_code \/ by_path) /\ completed) => origin = "this"

\* C16: a wait ends as Completed only in an iteration in which recv raised
\* (no data), and only when the chunk received last, alone, holds a flag: an
\* iteration that received data does not end the wait as Completed, nor does
\* a flag in a chunk that a later chunk replaced or that is split over two.
C16_CompletedOnLastChunkOnly ==
    [][("flag found" \in log' /\ "flag found" \notin log) =>
            /\ pc = "wait"
            /\ flags_in(bytes_rec) # {}
            /\ recvd' \notin {"data", "eof"}
            /\ bytes_rec' = <<>> /\ pc' = "idle"]_vars

\* the chunk received last is the second half of a flag; the read after it
\* found no data and the wait goes on
C16_witness ==
    /\ pc = "wait"
    /\ bytes_rec = <<"cessed*", "\n">>
    /\ recvd = "BlockingIOError"
    /\ "flag found" \notin log

\* C17: the socket is non-blocking throughout a wait and stays so after the
\* wait returned, Completed or TimedOut, for every later command; its mode
\* changes only where a wait is entered, so a command sent without wait
\* leaves the mode as it was.
C17_NonBlockingAfterWait ==
    /\ [](pc = "wait" \/ reads => ~sock.blocking)
    /\ [][~sock.blocking => ~sock.blocking']_vars
    /\ [][sock.blocking' # sock.blocking => pc' = "wait"]_vars

\* a command sent without wait was written to a socket that an earlier wait
\* left non-blocking
C17_witness ==
    /\ by_code /\ ended /\ ~call.wait
    /\ sent # <<>>
    /\ ~sock.blocking

====
